---- MODULE Spec2Model ----
(***************************************************************************)
(* A model of src/index.ts: the Domain classes (IpRange, PortRange,        *)
(* Protocol, Action) with their encode / decode functions and availability *)
(* pools, and the layered decision graph whose non-terminal nodes consume  *)
(* one pool value per inserted edge.                                       *)
(*                                                                         *)
(* Text.  A JavaScript string is modelled as the sequence of its           *)
(* characters, <<"8","0">> for "80", so that split, parseInt, toString and *)
(* join are computed character by character.                               *)
(*                                                                         *)
(* Numbers.  A JavaScript number holding an integer n is modelled as the   *)
(* record [hi |-> n \div 2^16, lo |-> n % 2^16] (floor division), so that  *)
(* n = hi * 2^16 + lo with lo in 0 .. 65535.  The representation is        *)
(* one-to-one, keeps the full width of the 32-bit operators of             *)
(* IpRange.getDomainValue / getRangeValue (4294967295 is [hi |-> 65535,    *)
(* lo |-> 65535]; a negative number has hi < 0) and stays inside the       *)
(* integers TLC can compute with.                                          *)
(***************************************************************************)
EXTENDS Integers, Sequences, FiniteSets

----------------------------------------------------------------------------
(* Characters and strings *)

Digits == <<"0", "1", "2", "3", "4", "5", "6", "7", "8", "9">>

IsDigit(c) == \E k \in 1..10 : Digits[k] = c

DigitVal(c) == (CHOOSE k \in 1..10 : Digits[k] = c) - 1

\* Number of leading decimal digits of s.
DigitPrefixLen(s) ==
    IF \A i \in 1..Len(s) : IsDigit(s[i])
    THEN Len(s)
    ELSE (CHOOSE i \in 1..Len(s) :
             /\ ~IsDigit(s[i])
             /\ \A j \in 1..(i - 1) : IsDigit(s[j])) - 1

RECURSIVE DigitsValue(_)
DigitsValue(s) ==
    IF Len(s) = 0 THEN 0
    ELSE 10 * DigitsValue(SubSeq(s, 1, Len(s) - 1)) + DigitVal(s[Len(s)])

\* parseInt(s) and parseInt(s, 10) on a string that starts with a decimal
\* digit: the value of its longest prefix of digits.
parseInt(s) == DigitsValue(SubSeq(s, 1, DigitPrefixLen(s)))

RECURSIVE toString(_)
\* Number.prototype.toString() of an integer.
toString(i) ==
    IF i < 0 THEN <<"-">> \o toString(0 - i)
    ELSE IF i < 10 THEN <<Digits[i + 1]>>
    ELSE toString(i \div 10) \o <<Digits[(i % 10) + 1]>>

RECURSIVE split(_, _)
\* String.prototype.split(sep) for a one-character separator.
split(s, sep) ==
    IF \A i \in 1..Len(s) : s[i] # sep
    THEN <<s>>
    ELSE LET p == CHOOSE i \in 1..Len(s) :
                     /\ s[i] = sep
                     /\ \A j \in 1..(i - 1) : s[j] # sep
         IN  <<SubSeq(s, 1, p - 1)>> \o split(SubSeq(s, p + 1, Len(s)), sep)

RECURSIVE join(_, _)
\* Array.prototype.join(sep) of an array of strings.
join(parts, sep) ==
    IF Len(parts) = 0 THEN <<>>
    ELSE IF Len(parts) = 1 THEN parts[1]
    ELSE parts[1] \o <<sep>> \o join(Tail(parts), sep)

\* Array.prototype.indexOf: the zero-based index of the first element equal
\* to x, or -1.
indexOf(list, x) ==
    IF \E i \in 1..Len(list) : list[i] = x
    THEN (CHOOSE i \in 1..Len(list) :
             /\ list[i] = x
             /\ \A j \in 1..(i - 1) : list[j] # x) - 1
    ELSE 0 - 1

\* The value of list[i] for an index that is not an element index.
Undefined == <<"undefined">>

----------------------------------------------------------------------------
(* JavaScript numbers and the 32-bit operators *)

Two16 == 256 * 256

FromInt(i) == [hi |-> i \div Two16, lo |-> i % Two16]

\* Defined for the numbers whose value fits TLC's integers.
NumToInt(n) == n.hi * Two16 + n.lo

IsNegative(n) == n.hi < 0

NumLe(a, b) == a.hi < b.hi \/ (a.hi = b.hi /\ a.lo <= b.lo)

\* n + i for an integer i >= 0.
NumPlus(n, i) ==
    [hi |-> n.hi + ((n.lo + i) \div Two16), lo |-> (n.lo + i) % Two16]

\* ToInt32: the value modulo 2^32, read as a signed 32-bit integer.
ToInt32(n) == [hi |-> ((n.hi + 32768) % Two16) - 32768, lo |-> n.lo]

\* ToUint32: the value modulo 2^32, as done by  n >>> 0.
ToUint32(n) == [hi |-> n.hi % Two16, lo |-> n.lo]

\* n << 8: the low 32 bits of n shifted left by eight, read as signed.
ShiftLeft8(n) ==
    LET u == ToUint32(n)
    IN  ToInt32([hi |-> (u.hi * 256 + (u.lo \div 256)) % Two16,
                 lo |-> (u.lo * 256) % Two16])

\* n >> k for k in {8, 16, 24}: the arithmetic shift of ToInt32(n); the
\* result fits an integer.
ShiftRight(n, k) ==
    LET s == ToInt32(n)
    IN  CASE k = 24 -> s.hi \div 256
          [] k = 16 -> s.hi
          [] k = 8  -> s.hi * 256 + (s.lo \div 256)

\* The integer value of ToInt32(n); it fits an integer.
Int32Value(n) == ToInt32(n).hi * Two16 + ToInt32(n).lo

\* i & 255 for an integer i in the signed 32-bit range.
And255(i) == i % 256

----------------------------------------------------------------------------
(* The Domain classes: encoding, decoding, population *)

Dot == "."

protocolList == << <<"t", "c", "p">>, <<"u", "d", "p">>, <<"i", "c", "m", "p">> >>

actionList == << <<"a", "l", "l", "o", "w">>,
                 <<"d", "i", "s", "c", "a", "r", "d">> >>

RECURSIVE ReduceOctets(_, _)
\* value.split(".").reduce((acc, octet) => (acc << 8) + parseInt(octet, 10), acc)
ReduceOctets(octets, acc) ==
    IF Len(octets) = 0 THEN acc
    ELSE ReduceOctets(Tail(octets),
                      NumPlus(ShiftLeft8(acc), parseInt(Head(octets))))

\* The reduce without the closing  >>> 0.
IpRange_getDomainValue_Signed(value) ==
    ReduceOctets(split(value, Dot), FromInt(0))

IpRange_getDomainValue(value) ==
    ToUint32(ReduceOctets(split(value, Dot), FromInt(0)))

\* The decoding without the  & 255  on the second octet.
IpRange_getRangeValue_NoMask(value) ==
    join(<<toString(And255(ShiftRight(value, 24))),
           toString(ShiftRight(value, 16)),
           toString(And255(ShiftRight(value, 8))),
           toString(And255(Int32Value(value)))>>, Dot)

IpRange_getRangeValue(value) ==
    join(<<toString(And255(ShiftRight(value, 24))),
           toString(And255(ShiftRight(value, 16))),
           toString(And255(ShiftRight(value, 8))),
           toString(And255(Int32Value(value)))>>, Dot)

PortRange_getDomainValue(value) == FromInt(parseInt(value))

PortRange_getRangeValue(value) == toString(NumToInt(value))

\* A one-based index.
Protocol_getDomainValue_OneBased(value) ==
    FromInt(indexOf(protocolList, value) + 1)

Protocol_getDomainValue(value) == FromInt(indexOf(protocolList, value))

Protocol_getRangeValue(value) ==
    IF NumToInt(value) \in 0..(Len(protocolList) - 1)
    THEN protocolList[NumToInt(value) + 1]
    ELSE Undefined

Action_getDomainValue(value) == FromInt(indexOf(actionList, value))

Action_getRangeValue(value) ==
    IF NumToInt(value) \in 0..(Len(actionList) - 1)
    THEN actionList[NumToInt(value) + 1]
    ELSE Undefined

\* Dynamic dispatch of domain.getDomainValue on the class of the Domain.
getDomainValue(class, value) ==
    CASE class = "IpRange"   -> IpRange_getDomainValue(value)
      [] class = "PortRange" -> PortRange_getDomainValue(value)
      [] class = "Protocol"  -> Protocol_getDomainValue(value)
      [] class = "Action"    -> Action_getDomainValue(value)

getRangeValue(class, value) ==
    CASE class = "IpRange"   -> IpRange_getRangeValue(value)
      [] class = "PortRange" -> PortRange_getRangeValue(value)
      [] class = "Protocol"  -> Protocol_getRangeValue(value)
      [] class = "Action"    -> Action_getRangeValue(value)

\* A has that asks only whether anything is left.
has_Any(set, value) == set # {}

\* Domain.has, Domain.add and Domain.delete on the value of availableValuesSet.
has(set, value) == value \in set

add(set, value) == set \cup {value}

\* A delete that removes nothing.
delete_Noop(set, value) == set

\* A delete that empties the set.
delete_Clear(set, value) == {}

delete(set, value) == set \ {value}

\* The numbers visited by  for (i = from; i < to; i++).
ForLoopValues_Exclusive(from, to) ==
    IF NumLe(from, to)
    THEN {NumPlus(from, k) :
             k \in 0..((to.hi - from.hi) * Two16 + (to.lo - from.lo) - 1)}
    ELSE {}

\* The numbers visited by  for (i = from; i <= to; i++), for to - from below
\* 2^31: the loop runs while i <= to and steps by one.
ForLoopValues(from, to) ==
    IF NumLe(from, to)
    THEN {NumPlus(from, k) :
             k \in 0..((to.hi - from.hi) * Two16 + (to.lo - from.lo))}
    ELSE {}

\* The set after this.add(i) was called for every i of values.
AddAll(set, values) == set \cup values

\* A loop that starts one above the encoded start.
IpRange_createRangeSet_SkipStart(set, start, end) ==
    AddAll(set, ForLoopValues(NumPlus(IpRange_getDomainValue(start), 1),
                              IpRange_getDomainValue(end)))

IpRange_createRangeSet(set, start, end) ==
    AddAll(set, ForLoopValues(IpRange_getDomainValue(start),
                              IpRange_getDomainValue(end)))

PortRange_createRangeSet(set, start, end) ==
    AddAll(set, ForLoopValues(FromInt(start), FromInt(end)))

RECURSIVE Protocol_createRangeSet(_, _)
\* for (const protocol of protocolList) this.add(this.getDomainValue(protocol))
Protocol_createRangeSet(set, list) ==
    IF Len(list) = 0 THEN set
    ELSE Protocol_createRangeSet(add(set, Protocol_getDomainValue(Head(list))),
                                 Tail(list))

RECURSIVE Action_createRangeSet(_, _)
\* for (const action of actionList) this.add(this.getDomainValue(action))
Action_createRangeSet(set, list) ==
    IF Len(list) = 0 THEN set
    ELSE Action_createRangeSet(add(set, Action_getDomainValue(Head(list))),
                               Tail(list))

\* The Domain constructor: an empty availableValuesSet, then createRangeSet.
\* args is [class, start, end]; Protocol and Action pass their static list.
NewDomain(args) ==
    CASE args.class = "IpRange" ->
             IpRange_createRangeSet({}, args.start, args.end)
      [] args.class = "PortRange" ->
             PortRange_createRangeSet({}, args.start, args.end)
      [] args.class = "Protocol" -> Protocol_createRangeSet({}, protocolList)
      [] args.class = "Action" -> Action_createRangeSet({}, actionList)

----------------------------------------------------------------------------
(* State *)

VARIABLES
    domain,              \* node -> the Domain object the node holds (node.domain)
    availableValuesSet,  \* Domain object -> its availableValuesSet
    edges,               \* non-terminal node -> its edges array
    log,                 \* the addEdge calls made so far, with their outcomes
    terminal,            \* terminal node -> its type and value fields
    race,                \* addEdge calls in progress, when run step by step
    dom,                 \* a Domain under test: its constructor arguments
    domSet,              \* a Domain under test: its availableValuesSet
    io                   \* a Domain under test: the last method call and result

vars == <<domain, availableValuesSet, edges, log, terminal, race, dom, domSet, io>>

graphVars == <<domain, availableValuesSet, edges, log, terminal, race>>

domVars == <<dom, domSet, io>>

----------------------------------------------------------------------------
(* One Domain object: construction, has, getDomainValue, getRangeValue *)

\* Largest start / end of the small PortRange constructions.
MaxPortBound == 3

\* Octets given both as the integer and as its decimal text.
OctetSample ==
    { [n |-> 0,   text |-> <<"0">>],
      [n |-> 1,   text |-> <<"1">>],
      [n |-> 10,  text |-> <<"1", "0">>],
      [n |-> 128, text |-> <<"1", "2", "8">>],
      [n |-> 168, text |-> <<"1", "6", "8">>],
      [n |-> 192, text |-> <<"1", "9", "2">>],
      [n |-> 255, text |-> <<"2", "5", "5">>] }

\* Dotted quads a.b.c.d over the sampled octets.
QuadSample ==
    { [text   |-> a.text \o <<".">> \o b.text \o <<".">> \o c.text
                         \o <<".">> \o d.text,
       octets |-> <<a.n, b.n, c.n, d.n>>] :
      a \in OctetSample, b \in OctetSample,
      c \in OctetSample, d \in OctetSample }

\* Decimal ports given both as the integer and as its decimal text.
PortSample ==
    { [text |-> <<"0">>, n |-> 0],
      [text |-> <<"1">>, n |-> 1],
      [text |-> <<"9">>, n |-> 9],
      [text |-> <<"1", "0">>, n |-> 10],
      [text |-> <<"2", "2">>, n |-> 22],
      [text |-> <<"8", "0">>, n |-> 80],
      [text |-> <<"1", "0", "0">>, n |-> 100],
      [text |-> <<"4", "4", "3">>, n |-> 443],
      [text |-> <<"8", "0", "8", "0">>, n |-> 8080],
      [text |-> <<"6", "5", "5", "3", "5">>, n |-> 65535],
      [text |-> <<"6", "5", "5", "3", "6">>, n |-> 65536] }

\* Names: the listed ones and some that no list holds.
NameSample ==
    { [text |-> <<"t", "c", "p">>],
      [text |-> <<"u", "d", "p">>],
      [text |-> <<"i", "c", "m", "p">>],
      [text |-> <<"a", "l", "l", "o", "w">>],
      [text |-> <<"d", "i", "s", "c", "a", "r", "d">>],
      [text |-> <<"a", "c", "c", "e", "p", "t">>],
      [text |-> <<"h", "t", "t", "p">>],
      [text |-> <<>>] }

\* The external values handed to getDomainValue of a Domain of the class.
ExternalSample(class) ==
    CASE class = "IpRange"   -> QuadSample
      [] class = "PortRange" -> PortSample
      [] class = "Protocol"  -> NameSample
      [] class = "Action"    -> NameSample

IpText(a, b, c, d) ==
    toString(a) \o <<".">> \o toString(b) \o <<".">> \o toString(c)
                \o <<".">> \o toString(d)

\* Constructor calls new IpRange(start, end): sourceIpRange of the module, and
\* ranges at both ends and across the sign bit of the 32-bit space; one has
\* start above end.
IpRangeArgs ==
    { [class |-> "IpRange", start |-> IpText(109, 230, 37, 1),
                            end   |-> IpText(109, 230, 37, 10)],
      [class |-> "IpRange", start |-> IpText(0, 0, 0, 0),
                            end   |-> IpText(0, 0, 0, 2)],
      [class |-> "IpRange", start |-> IpText(255, 255, 255, 253),
                            end   |-> IpText(255, 255, 255, 255)],
      [class |-> "IpRange", start |-> IpText(127, 255, 255, 254),
                            end   |-> IpText(128, 0, 0, 1)],
      [class |-> "IpRange", start |-> IpText(10, 0, 1, 0),
                            end   |-> IpText(10, 0, 0, 255)] }

\* Constructor calls new PortRange(start, end): the one of the module and
\* every small pair.
PortRangeArgs ==
    { [class |-> "PortRange", start |-> 1, end |-> 65535] }
    \cup { [class |-> "PortRange", start |-> s, end |-> e] :
           s \in 0..MaxPortBound, e \in 0..MaxPortBound }

DomainArgs ==
    IpRangeArgs \cup PortRangeArgs
    \cup { [class |-> "Protocol", start |-> <<>>, end |-> <<>>],
           [class |-> "Action", start |-> <<>>, end |-> <<>>] }

\* The integer bounds of a bounded-range Domain.
LowerBound(args) ==
    IF args.class = "IpRange" THEN IpRange_getDomainValue(args.start)
    ELSE FromInt(args.start)

UpperBound(args) ==
    IF args.class = "IpRange" THEN IpRange_getDomainValue(args.end)
    ELSE FromInt(args.end)

\* n - i for an integer i >= 0.
NumMinus(n, i) ==
    [hi |-> n.hi + ((n.lo - i) \div Two16), lo |-> (n.lo - i) % Two16]

\* The integers has() is asked about: around both bounds of the Domain, and
\* around 0, 65535 and 2^32.
ProbeSample(args) ==
    LET around(n) == {NumMinus(n, k) : k \in 0..3} \cup {NumPlus(n, k) : k \in 0..3}
    IN  around(FromInt(0)) \cup around(FromInt(65535))
        \cup around([hi |-> 65535, lo |-> 65535])
        \cup (IF args.class \in {"IpRange", "PortRange"}
              THEN around(LowerBound(args)) \cup around(UpperBound(args))
              ELSE {})

NoCall == [op |-> "none"]

InitDomain ==
    /\ dom \in DomainArgs
    /\ domSet = NewDomain(dom)
    /\ io = NoCall
    /\ domain = <<>>
    /\ availableValuesSet = <<>>
    /\ edges = <<>>
    /\ log = <<>>
    /\ terminal = <<>>
    /\ race = <<>>

\* d.has(v), as the first call on the new Domain
Has ==
    /\ io = NoCall
    /\ \E v \in ProbeSample(dom) :
           io' = [op |-> "has", value |-> v, result |-> has(domSet, v)]
    /\ UNCHANGED <<dom, domSet, graphVars>>

\* d.getDomainValue(x), as the first call on the new Domain
GetDomainValue ==
    /\ io = NoCall
    /\ \E x \in ExternalSample(dom.class) :
           io' = [op |-> "getDomainValue", ext |-> x,
                  enc |-> getDomainValue(dom.class, x.text)]
    /\ UNCHANGED <<dom, domSet, graphVars>>

\* d.getRangeValue(v) of the integer the last getDomainValue returned
GetRangeValue ==
    /\ io.op = "getDomainValue"
    /\ io' = [op |-> "getRangeValue", ext |-> io.ext, enc |-> io.enc,
              dec |-> getRangeValue(dom.class, io.enc)]
    /\ UNCHANGED <<dom, domSet, graphVars>>

NextDomain == Has \/ GetDomainValue \/ GetRangeValue

SpecDomain == InitDomain /\ [][NextDomain]_vars

----------------------------------------------------------------------------
(* The decision graph: nodes, their Domains, addEdge *)

\* Largest number of addEdge calls in a behaviour.
MaxCalls == 3

NonTerminalNodes ==
    {"sourceIpNode", "sourceIpNode2", "targetIpNode", "sourcePortNode",
     "destinationPortNode", "tcpProtocolNode"}

TerminalNodes == {"allowActionNode", "discardActionNode"}

Nodes == NonTerminalNodes \cup TerminalNodes

\* The class each node is an instance of.
NodeClass ==
    [n \in Nodes |->
        CASE n \in {"sourceIpNode", "sourceIpNode2"} -> "SourceIpNode"
          [] n = "targetIpNode" -> "DestinationIpNode"
          [] n = "sourcePortNode" -> "SourcePortNode"
          [] n = "destinationPortNode" -> "DestinationPortNode"
          [] n = "tcpProtocolNode" -> "ProtocolNode"
          [] n \in TerminalNodes -> "ActionNode"]

\* node.type, the tag the constructor of the class pins.
NodeType ==
    [n \in Nodes |->
        CASE NodeClass[n] = "SourceIpNode" -> "source_ip"
          [] NodeClass[n] = "DestinationIpNode" -> "destination_ip"
          [] NodeClass[n] = "SourcePortNode" -> "source_port"
          [] NodeClass[n] = "DestinationPortNode" -> "destination_port"
          [] NodeClass[n] = "ProtocolNode" -> "protocol"
          [] NodeClass[n] = "ActionNode" -> "action"]

\* node.value of the terminal nodes.
NodeValue ==
    [n \in TerminalNodes |->
        IF n = "allowActionNode" THEN <<"a", "c", "c", "e", "p", "t">>
        ELSE <<"d", "i", "s", "c", "a", "r", "d">>]

\* The Domain objects and the constructor call that made each.  The IpRange
\* of the source-address nodes is the module's; the other ranges are narrower
\* than the module's.  ProtocolNode and ActionNode construct their own Domain.
DomainObjects ==
    [sourceIpRange |->
         [class |-> "IpRange", start |-> IpText(109, 230, 37, 1),
                               end   |-> IpText(109, 230, 37, 10)],
     sourceIpRange2 |->
         [class |-> "IpRange", start |-> IpText(109, 230, 37, 1),
                               end   |-> IpText(109, 230, 37, 10)],
     targetIpRange |->
         [class |-> "IpRange", start |-> IpText(192, 168, 1, 1),
                               end   |-> IpText(192, 168, 1, 20)],
     sourcePortRange |-> [class |-> "PortRange", start |-> 22, end |-> 80],
     destinationPortRange |->
         [class |-> "PortRange", start |-> 80, end |-> 80],
     tcpProtocol |-> [class |-> "Protocol", start |-> <<>>, end |-> <<>>],
     allowAction |-> [class |-> "Action", start |-> <<>>, end |-> <<>>],
     discardAction |-> [class |-> "Action", start |-> <<>>, end |-> <<>>]]

DomainIds == DOMAIN DomainObjects

DomainClass(d) == DomainObjects[d].class

\* The Domain handed to each node constructor.  A constructor stores the
\* reference it is given, so two source-address nodes can be built over the
\* same IpRange object (shared) or over one each.
NodeDomain(shared) ==
    [n \in Nodes |->
        CASE n = "sourceIpNode" -> "sourceIpRange"
          [] n = "sourceIpNode2" ->
                 IF shared THEN "sourceIpRange" ELSE "sourceIpRange2"
          [] n = "targetIpNode" -> "targetIpRange"
          [] n = "sourcePortNode" -> "sourcePortRange"
          [] n = "destinationPortNode" -> "destinationPortRange"
          [] n = "tcpProtocolNode" -> "tcpProtocol"
          [] n = "allowActionNode" -> "allowAction"
          [] n = "discardActionNode" -> "discardAction"]

\* new Edge(source, target, value)
Edge(source, target, value) ==
    [source |-> source, target |-> target, value |-> value]

\* The edges handed to n.addEdge.
EdgeSample(n) ==
    CASE n = "sourceIpNode" ->
             { Edge("sourceIpNode", "targetIpNode", v) :
                 v \in {IpText(109, 230, 37, 1), IpText(109, 230, 37, 2),
                        IpText(109, 230, 37, 11),
                        IpText(109, 230, 37, 0) \o <<"1">>} }
             \cup { Edge("sourceIpNode", "sourceIpNode2", IpText(109, 230, 37, 1)),
                    Edge("sourceIpNode2", "targetIpNode", IpText(109, 230, 37, 1)) }
      [] n = "sourceIpNode2" ->
             { Edge("sourceIpNode2", "targetIpNode", v) :
                 v \in {IpText(109, 230, 37, 1)} }
      [] n = "targetIpNode" ->
             { Edge("targetIpNode", "sourcePortNode", v) :
                 v \in {IpText(192, 168, 1, 10), IpText(192, 168, 1, 0)} }
      [] n = "sourcePortNode" ->
             { Edge("sourcePortNode", "destinationPortNode", v) :
                 v \in {<<"8", "0">>, <<"0", "8", "0">>} }
             \cup { Edge("sourcePortNode", "tcpProtocolNode", <<"8", "0">>),
                    Edge("tcpProtocolNode", "allowActionNode", <<"t", "c", "p">>) }
      [] n = "destinationPortNode" ->
             { Edge("destinationPortNode", "tcpProtocolNode", v) :
                 v \in {<<"8", "0">>, <<"8", "1">>} }
      [] n = "tcpProtocolNode" ->
             { Edge("tcpProtocolNode", "allowActionNode", <<"t", "c", "p">>),
               Edge("tcpProtocolNode", "discardActionNode", <<"t", "c", "p">>),
               Edge("tcpProtocolNode", "allowActionNode", <<"h", "t", "t", "p">>) }

\* The type arguments each node class pins: NonTerminalNode<SOURCE_DOMAIN,
\* TARGET_DOMAIN> for the five non-terminal classes, TerminalNode<DOMAIN> for
\* ActionNode (which has no TARGET_DOMAIN).
SOURCE_DOMAIN ==
    [c \in {NodeClass[n] : n \in Nodes} |->
        CASE c = "SourceIpNode" -> "IpRange"
          [] c = "DestinationIpNode" -> "IpRange"
          [] c = "SourcePortNode" -> "PortRange"
          [] c = "DestinationPortNode" -> "PortRange"
          [] c = "ProtocolNode" -> "Protocol"
          [] c = "ActionNode" -> "Action"]

TARGET_DOMAIN ==
    [c \in {NodeClass[n] : n \in NonTerminalNodes} |->
        CASE c = "SourceIpNode" -> "IpRange"
          [] c = "DestinationIpNode" -> "PortRange"
          [] c = "SourcePortNode" -> "PortRange"
          [] c = "DestinationPortNode" -> "Protocol"
          [] c = "ProtocolNode" -> "Action"]

\* Whether an instance of Domain class a may stand where class b is asked
\* for.  Every class may stand for the abstract Domain; IpRange and PortRange
\* differ in the parameter types of their methods (string against number);
\* Protocol and Action declare instance members of the same types, so the
\* structural comparison takes either for the other.
DomainAssignable(a, b) ==
    \/ a = b
    \/ b = "Domain"
    \/ {a, b} = {"Protocol", "Action"}

\* Whether node m may stand where Node<S, T> is asked for:
\* NonTerminalNode<S, T> | TerminalNode<S>.
NodeAssignable(m, S, T) ==
    IF m \in TerminalNodes
    THEN DomainAssignable(SOURCE_DOMAIN[NodeClass[m]], S)
    ELSE /\ DomainAssignable(SOURCE_DOMAIN[NodeClass[m]], S)
         /\ DomainAssignable(TARGET_DOMAIN[NodeClass[m]], T)

\* Whether the call n.addEdge(edge) passes the compiler: edge must be an
\* Edge<SOURCE_DOMAIN, TARGET_DOMAIN> of n's class, whose source is a
\* Node<SOURCE_DOMAIN, TARGET_DOMAIN> and whose target is a
\* Node<TARGET_DOMAIN, Domain>.
WellTyped(n, edge) ==
    LET S == SOURCE_DOMAIN[NodeClass[n]]
        T == TARGET_DOMAIN[NodeClass[n]]
    IN  /\ NodeAssignable(edge.source, S, T)
        /\ NodeAssignable(edge.target, T, "Domain")

NoError == [name |-> "none"]

\* new ValueNotAvailableError(node, value)
ValueNotAvailableError(node, value) ==
    [name |-> "ValueNotAvailableError", node |-> node, value |-> value]

\* The record the log keeps of one call n.addEdge(edge).
Call(n, edge, error) ==
    [node |-> n, edge |-> edge, threw |-> error # NoError, error |-> error]

\* new TerminalNode(type, domain, value): the fields are stored as given.
TerminalNode(type, value) == [type |-> type, value |-> value]

\* No addEdge call is run step by step.
NoRace == [atomic |-> TRUE, clock |-> 0, thread |-> <<>>]

Init ==
    /\ \E shared \in BOOLEAN : domain = NodeDomain(shared)
    /\ availableValuesSet = [d \in DomainIds |-> NewDomain(DomainObjects[d])]
    /\ edges = [n \in NonTerminalNodes |-> <<>>]
    /\ log = <<>>
    /\ terminal = [n \in TerminalNodes |-> TerminalNode(NodeType[n], NodeValue[n])]
    /\ race = NoRace
    /\ dom = <<>>
    /\ domSet = {}
    /\ io = NoCall

\* addEdge without the domain.delete of line 171.
AddEdge_NoDelete(n, edge) ==
    LET d == domain[n]
        value == edge.value
    IN  /\ Len(log) < MaxCalls
        /\ IF ~has(availableValuesSet[d], getDomainValue(DomainClass(d), value))
           THEN /\ log' = Append(log, Call(n, edge, ValueNotAvailableError(n, value)))
                /\ UNCHANGED <<availableValuesSet, edges>>
           ELSE /\ edges' = [edges EXCEPT ![n] = Append(@, edge)]
                /\ log' = Append(log, Call(n, edge, NoError))
                /\ UNCHANGED availableValuesSet
        /\ UNCHANGED <<domain, terminal, race, domVars>>

\* addEdge with the edges.push of line 172 moved before the check.
AddEdge_PushBeforeCheck(n, edge) ==
    LET d == domain[n]
        value == edge.value
    IN  /\ Len(log) < MaxCalls
        /\ edges' = [edges EXCEPT ![n] = Append(@, edge)]
        /\ IF ~has(availableValuesSet[d], getDomainValue(DomainClass(d), value))
           THEN /\ log' = Append(log, Call(n, edge, ValueNotAvailableError(n, value)))
                /\ UNCHANGED availableValuesSet
           ELSE /\ availableValuesSet' =
                       [availableValuesSet EXCEPT
                           ![d] = delete(@, getDomainValue(DomainClass(d), value))]
                /\ log' = Append(log, Call(n, edge, NoError))
        /\ UNCHANGED <<domain, terminal, race, domVars>>

\* addEdge without the check of lines 168-170.
AddEdge_NoCheck(n, edge) ==
    LET d == domain[n]
        value == edge.value
    IN  /\ Len(log) < MaxCalls
        /\ availableValuesSet' =
               [availableValuesSet EXCEPT
                   ![d] = delete(@, getDomainValue(DomainClass(d), value))]
        /\ edges' = [edges EXCEPT ![n] = Append(@, edge)]
        /\ log' = Append(log, Call(n, edge, NoError))
        /\ UNCHANGED <<domain, terminal, race, domVars>>

\* addEdge with the edge put at the front of the list instead of the end.
AddEdge_Prepend(n, edge) ==
    LET d == domain[n]
        value == edge.value
    IN  /\ Len(log) < MaxCalls
        /\ IF ~has(availableValuesSet[d], getDomainValue(DomainClass(d), value))
           THEN /\ log' = Append(log, Call(n, edge, ValueNotAvailableError(n, value)))
                /\ UNCHANGED <<availableValuesSet, edges>>
           ELSE /\ availableValuesSet' =
                       [availableValuesSet EXCEPT
                           ![d] = delete(@, getDomainValue(DomainClass(d), value))]
                /\ edges' = [edges EXCEPT ![n] = <<edge>> \o @]
                /\ log' = Append(log, Call(n, edge, NoError))
        /\ UNCHANGED <<domain, terminal, race, domVars>>

\* addEdge whose error carries the decoded value written back as text instead
\* of the literal of the edge.
AddEdge_ThrowsDecoded(n, edge) ==
    LET d == domain[n]
        value == edge.value
    IN  /\ Len(log) < MaxCalls
        /\ IF ~has(availableValuesSet[d], getDomainValue(DomainClass(d), value))
           THEN /\ log' = Append(log, Call(n, edge,
                              ValueNotAvailableError(n,
                                  getRangeValue(DomainClass(d),
                                      getDomainValue(DomainClass(d), value)))))
                /\ UNCHANGED <<availableValuesSet, edges>>
           ELSE /\ availableValuesSet' =
                       [availableValuesSet EXCEPT
                           ![d] = delete(@, getDomainValue(DomainClass(d), value))]
                /\ edges' = [edges EXCEPT ![n] = Append(@, edge)]
                /\ log' = Append(log, Call(n, edge, NoError))
        /\ UNCHANGED <<domain, terminal, race, domVars>>

\* addEdge that also takes the decision of a terminal target out of the
\* target's Action pool.
AddEdge_ConsumesTarget(n, edge) ==
    LET d == domain[n]
        value == edge.value
        t == edge.target
        consumed ==
            [availableValuesSet EXCEPT
                ![d] = delete(@, getDomainValue(DomainClass(d), value))]
    IN  /\ Len(log) < MaxCalls
        /\ IF ~has(availableValuesSet[d], getDomainValue(DomainClass(d), value))
           THEN /\ log' = Append(log, Call(n, edge, ValueNotAvailableError(n, value)))
                /\ UNCHANGED <<availableValuesSet, edges>>
           ELSE /\ availableValuesSet' =
                       IF t \in TerminalNodes
                       THEN [consumed EXCEPT
                                ![domain[t]] =
                                    delete(@, getDomainValue(DomainClass(domain[t]),
                                                             terminal[t].value))]
                       ELSE consumed
                /\ edges' = [edges EXCEPT ![n] = Append(@, edge)]
                /\ log' = Append(log, Call(n, edge, NoError))
        /\ UNCHANGED <<domain, terminal, race, domVars>>

\* n.addEdge(edge)
AddEdge(n, edge) ==
    LET d == domain[n]
        value == edge.value
    IN  /\ Len(log) < MaxCalls
        /\ IF ~has(availableValuesSet[d], getDomainValue(DomainClass(d), value))
           THEN /\ log' = Append(log, Call(n, edge, ValueNotAvailableError(n, value)))
                /\ UNCHANGED <<availableValuesSet, edges>>
           ELSE /\ availableValuesSet' =
                       [availableValuesSet EXCEPT
                           ![d] = delete(@, getDomainValue(DomainClass(d), value))]
                /\ edges' = [edges EXCEPT ![n] = Append(@, edge)]
                /\ log' = Append(log, Call(n, edge, NoError))
        /\ UNCHANGED <<domain, terminal, race, domVars>>

Next ==
    \E n \in NonTerminalNodes : \E edge \in EdgeSample(n) :
        WellTyped(n, edge) /\ AddEdge(n, edge)

Spec == Init /\ [][Next]_vars

----------------------------------------------------------------------------
(* addEdge run step by step: the check of line 168 and the consume-and-append
   of lines 171-172 as two steps of one call.  In the code every call runs
   to completion before the next begins (race.atomic); the other mode lets
   the steps of two calls interleave. *)

MaxThreads == 2

Threads == 1..MaxThreads

Idle ==
    [pc |-> "idle", node |-> "none", edge |-> <<>>, found |-> FALSE,
     threw |-> FALSE, checkedAt |-> 0, consumedAt |-> 0]

\* The calls made step by step.
RaceSample(n) ==
    CASE n = "sourceIpNode" ->
             { Edge("sourceIpNode", "targetIpNode", v) :
                 v \in {IpText(109, 230, 37, 1),
                        IpText(109, 230, 37, 0) \o <<"1">>,
                        IpText(109, 230, 37, 11)} }
      [] n = "sourcePortNode" ->
             { Edge("sourcePortNode", "destinationPortNode", v) :
                 v \in {<<"8", "0">>, <<"0", "8", "0">>} }
      [] OTHER -> {}

InFlight(t) == race.thread[t].pc \in {"check", "consume"}

InitRace ==
    /\ domain = NodeDomain(FALSE)
    /\ availableValuesSet = [d \in DomainIds |-> NewDomain(DomainObjects[d])]
    /\ edges = [n \in NonTerminalNodes |-> <<>>]
    /\ log = <<>>
    /\ terminal = [n \in TerminalNodes |-> TerminalNode(NodeType[n], NodeValue[n])]
    /\ \E atomic \in BOOLEAN :
           race = [atomic |-> atomic, clock |-> 0,
                   thread |-> [t \in Threads |-> Idle]]
    /\ dom = <<>>
    /\ domSet = {}
    /\ io = NoCall

\* The call n.addEdge(edge) is entered.
AddEdge_Begin(t, n, edge) ==
    /\ race.thread[t].pc = "idle"
    /\ race.atomic => \A u \in Threads : ~InFlight(u)
    /\ race' = [race EXCEPT
                   !.thread[t] = [Idle EXCEPT !.pc = "check", !.node = n,
                                              !.edge = edge]]
    /\ UNCHANGED <<domain, availableValuesSet, edges, log, terminal, domVars>>

\* Lines 168-170: the availability check, and the throw when it fails.
AddEdge_Check(t) ==
    LET th == race.thread[t]
        d == domain[th.node]
        found == has(availableValuesSet[d],
                     getDomainValue(DomainClass(d), th.edge.value))
    IN  /\ th.pc = "check"
        /\ race' = [race EXCEPT
                       !.clock = @ + 1,
                       !.thread[t] = [th EXCEPT
                           !.pc = IF found THEN "consume" ELSE "done",
                           !.found = found,
                           !.threw = ~found,
                           !.checkedAt = race.clock + 1]]
        /\ log' = IF found THEN log
                  ELSE Append(log, Call(th.node, th.edge,
                                  ValueNotAvailableError(th.node, th.edge.value)))
        /\ UNCHANGED <<domain, availableValuesSet, edges, terminal, domVars>>

\* Lines 171-172 with the check of line 168 made again before them.
AddEdge_Consume_Recheck(t) ==
    LET th == race.thread[t]
        d == domain[th.node]
        v == getDomainValue(DomainClass(d), th.edge.value)
        found == has(availableValuesSet[d], v)
    IN  /\ th.pc = "consume"
        /\ race' = [race EXCEPT
                       !.clock = @ + 1,
                       !.thread[t] = [th EXCEPT !.pc = "done",
                                                !.threw = ~found,
                                                !.consumedAt = race.clock + 1]]
        /\ IF found
           THEN /\ availableValuesSet' =
                       [availableValuesSet EXCEPT ![d] = delete(@, v)]
                /\ edges' = [edges EXCEPT ![th.node] = Append(@, th.edge)]
                /\ log' = Append(log, Call(th.node, th.edge, NoError))
           ELSE /\ log' = Append(log, Call(th.node, th.edge,
                                   ValueNotAvailableError(th.node, th.edge.value)))
                /\ UNCHANGED <<availableValuesSet, edges>>
        /\ UNCHANGED <<domain, terminal, domVars>>

\* Lines 171-172: the value is deleted from the pool and the edge appended.
AddEdge_Consume(t) ==
    LET th == race.thread[t]
        d == domain[th.node]
    IN  /\ th.pc = "consume"
        /\ race' = [race EXCEPT
                       !.clock = @ + 1,
                       !.thread[t] = [th EXCEPT !.pc = "done",
                                                !.consumedAt = race.clock + 1]]
        /\ availableValuesSet' =
               [availableValuesSet EXCEPT
                   ![d] = delete(@, getDomainValue(DomainClass(d), th.edge.value))]
        /\ edges' = [edges EXCEPT ![th.node] = Append(@, th.edge)]
        /\ log' = Append(log, Call(th.node, th.edge, NoError))
        /\ UNCHANGED <<domain, terminal, domVars>>

NextRace ==
    \/ \E t \in Threads : \E n \in NonTerminalNodes : \E edge \in RaceSample(n) :
           WellTyped(n, edge) /\ AddEdge_Begin(t, n, edge)
    \/ \E t \in Threads : AddEdge_Check(t)
    \/ \E t \in Threads : AddEdge_Consume(t)

SpecRace == InitRace /\ [][NextRace]_vars

----------------------------------------------------------------------------
(* Properties of the graph, checked under Spec *)

\* The integer a literal value decodes to through the Domain of node n.
Decoded(n, value) == getDomainValue(DomainClass(domain[n]), value)

Pool(n) == availableValuesSet[domain[n]]

LastCall == log[Len(log)]

IsValueNotAvailable(c) ==
    c.threw /\ c.error.name = "ValueNotAvailableError"

ip1 == IpText(109, 230, 37, 1)
ip2 == IpText(109, 230, 37, 2)
ip11 == IpText(109, 230, 37, 11)

\* C1: a step n.addEdge(e) whose value decodes to an integer v that is in
\* n's pool succeeds, appends exactly the one edge e to n's edge list, and
\* leaves v unavailable at n.
C1_AvailableInsertSucceeds ==
    [][ Len(log') = Len(log) + 1 =>
          LET c == log'[Len(log')]
              n == c.node
              v == Decoded(n, c.edge.value)
          IN  has(Pool(n), v) =>
                /\ ~c.threw
                /\ Len(edges'[n]) = Len(edges[n]) + 1
                /\ edges'[n] = Append(edges[n], c.edge)
                /\ ~has(availableValuesSet'[domain[n]], v) ]_vars

C1_Witness ==
    /\ Len(log) > 0
    /\ ~LastCall.threw
    /\ Len(edges[LastCall.node]) >= 1
    /\ edges[LastCall.node][Len(edges[LastCall.node])] = LastCall.edge
    /\ ~has(Pool(LastCall.node), Decoded(LastCall.node, LastCall.edge.value))

\* C2: a step n.addEdge(e) whose value decodes to an integer that is not in
\* n's pool fails with the value-not-available error and leaves n's edge
\* list and n's pool as they were.
C2_UnavailableInsertFails ==
    [][ Len(log') = Len(log) + 1 =>
          LET c == log'[Len(log')]
              n == c.node
              v == Decoded(n, c.edge.value)
          IN  ~has(Pool(n), v) =>
                /\ IsValueNotAvailable(c)
                /\ edges'[n] = edges[n]
                /\ availableValuesSet'[domain[n]] = Pool(n) ]_vars

\* A value that was never populated is rejected by a node that holds an edge.
C2_Witness ==
    /\ Len(log) > 1
    /\ IsValueNotAvailable(LastCall)
    /\ LastCall.node = "targetIpNode"
    /\ LastCall.edge.value = IpText(192, 168, 1, 0)
    /\ Len(edges["targetIpNode"]) = 1

\* C3: in every reachable state the decoded values of any two edges of one
\* node are different.
C3_DistinctDecodedValues ==
    \A n \in NonTerminalNodes :
        \A i, j \in 1..Len(edges[n]) :
            i # j => Decoded(n, edges[n][i].value) # Decoded(n, edges[n][j].value)

\* A node holds two edges after one of its insertions failed.
C3_Witness ==
    \E n \in NonTerminalNodes :
        /\ Len(edges[n]) = 2
        /\ \E i \in 1..Len(log) : log[i].node = n /\ log[i].threw

\* C4: once n.addEdge succeeded for a value decoding to v, every later
\* n.addEdge whose value decodes to v fails with value-not-available,
\* whatever its target, its literal and the calls in between.
C4_ConsumptionIrreversible ==
    \A i, j \in 1..Len(log) :
        ( /\ i < j
          /\ log[i].node = log[j].node
          /\ ~log[i].threw
          /\ Decoded(log[i].node, log[i].edge.value)
                = Decoded(log[j].node, log[j].edge.value) )
        => IsValueNotAvailable(log[j])

\* The identical edge inserted twice, with a successful insertion on another
\* node in between.
C4_Witness ==
    /\ Len(log) = 3
    /\ log[1].node = log[3].node
    /\ log[1].edge = log[3].edge
    /\ ~log[1].threw
    /\ log[2].node # log[1].node /\ ~log[2].threw
    /\ IsValueNotAvailable(log[3])

\* The calls 1..k of the log are on node n and carry the values vs[1..k].
CallsAre(n, vs) ==
    /\ Len(log) >= Len(vs)
    /\ \A i \in 1..Len(vs) : log[i].node = n /\ log[i].edge.value = vs[i]

\* 109.230.37.2 .. 109.230.37.10
NineLeft == {[hi |-> 109 * 256 + 230, lo |-> 37 * 256 + k] : k \in 2..10}

\* C5: on the source-address node over 109.230.37.1 .. 109.230.37.10, the
\* first insertion of "109.230.37.1" succeeds, a second one (to any target)
\* fails with value-not-available, one of "109.230.37.11" fails with
\* value-not-available; after these three calls the node has one edge and
\* its pool is 109.230.37.2 .. 109.230.37.10.
C5_EndToEnd ==
    LET n == "sourceIpNode"
    IN  /\ CallsAre(n, <<ip1>>) => ~log[1].threw
        /\ CallsAre(n, <<ip1, ip1>>) => IsValueNotAvailable(log[2])
        /\ CallsAre(n, <<ip1, ip1, ip11>>) =>
              /\ IsValueNotAvailable(log[3])
              /\ Len(log) = 3 => (Len(edges[n]) = 1 /\ Pool(n) = NineLeft)

C5_Witness ==
    /\ Len(log) = 3
    /\ CallsAre("sourceIpNode", <<ip1, ip1, ip11>>)
    /\ log[1].edge.target # log[2].edge.target
    /\ Len(edges["sourceIpNode"]) = 1

\* C10: in every step a node's pool is unchanged or loses exactly the one
\* value consumed by a successful addEdge on that node, and the node's edge
\* list changes only by that addEdge; the pool is always a subset of the
\* initial population.
C10_PoolShrinksOnlyByOwnAddEdge ==
    /\ [](\A n \in Nodes : Pool(n) \subseteq NewDomain(DomainObjects[domain[n]]))
    /\ [][ \A n \in NonTerminalNodes :
             \/ /\ availableValuesSet'[domain[n]] = Pool(n)
                /\ edges'[n] = edges[n]
             \/ /\ Len(log') = Len(log) + 1
                /\ LET c == log'[Len(log')]
                   IN  /\ c.node = n
                       /\ ~c.threw
                       /\ has(Pool(n), Decoded(n, c.edge.value))
                       /\ availableValuesSet'[domain[n]]
                             = Pool(n) \ {Decoded(n, c.edge.value)}
                       /\ edges'[n] = Append(edges[n], c.edge) ]_vars

\* C11: a step n.addEdge(e), succeeding or failing, leaves the pool and the
\* edge list of every node other than n unchanged, the target of e and the
\* other nodes of n's layer included.
C11_OtherNodesUntouched ==
    [][ Len(log') = Len(log) + 1 =>
          LET n == log'[Len(log')].node
          IN  \A m \in Nodes \ {n} :
                 /\ availableValuesSet'[domain[m]] = Pool(m)
                 /\ m \in NonTerminalNodes => edges'[m] = edges[m] ]_vars

\* The position of a node's layer in the order source address, destination
\* address, source port, destination port, protocol, action.
Layer(n) ==
    CASE NodeType[n] = "source_ip" -> 1
      [] NodeType[n] = "destination_ip" -> 2
      [] NodeType[n] = "source_port" -> 3
      [] NodeType[n] = "destination_port" -> 4
      [] NodeType[n] = "protocol" -> 5
      [] NodeType[n] = "action" -> 6

\* C12: in every graph that can be built, each edge held by a node of layer
\* k targets a node of layer k + 1.
C12_EdgesTargetNextLayer ==
    \A n \in NonTerminalNodes : \A i \in 1..Len(edges[n]) :
        Layer(edges[n][i].target) = Layer(n) + 1

\* The edges of the successful calls on n, in the order the calls were made.
RECURSIVE SuccessfulEdges(_, _)
SuccessfulEdges(calls, n) ==
    IF calls = <<>> THEN <<>>
    ELSE LET c == Head(calls)
         IN  (IF c.node = n /\ ~c.threw THEN <<c.edge>> ELSE <<>>)
                 \o SuccessfulEdges(Tail(calls), n)

IsPrefix(s, t) == Len(s) <= Len(t) /\ SubSeq(t, 1, Len(s)) = s

\* C13: n.edges is exactly the sequence of the edges of the successful
\* addEdge calls on n in the order they were made, and a later edge list
\* always has every earlier one as a prefix: no edge is removed, replaced or
\* reordered.
C13_AppendOnlyInsertionOrder ==
    /\ [](\A n \in NonTerminalNodes : edges[n] = SuccessfulEdges(log, n))
    /\ [][\A n \in NonTerminalNodes : IsPrefix(edges[n], edges'[n])]_vars

\* Two edges on one node with a failed call between the two insertions.
C13_Witness ==
    /\ Len(log) = 3
    /\ \A i \in 1..3 : log[i].node = "sourceIpNode"
    /\ ~log[1].threw /\ log[2].threw /\ ~log[3].threw
    /\ Len(edges["sourceIpNode"]) = 2
    /\ edges["sourceIpNode"][1] # edges["sourceIpNode"][2]

\* Some node holds two edges of one decoded value.
TwoEdgesOfOneValue ==
    \E n \in NonTerminalNodes : \E i, j \in 1..Len(edges[n]) :
        i # j /\ Decoded(n, edges[n][i].value) = Decoded(n, edges[n][j].value)

\* Calls t and u were made on one node with one decoded value.
SameInsertion(t, u) ==
    /\ t # u
    /\ race.thread[t].pc # "idle" /\ race.thread[u].pc # "idle"
    /\ race.thread[t].node = race.thread[u].node
    /\ Decoded(race.thread[t].node, race.thread[t].edge.value)
           = Decoded(race.thread[u].node, race.thread[u].edge.value)

\* Both calls are over, the value was in the pool at the first of the two
\* checks, and no call consumed that value before the second check.
BothCheckedBeforeEitherConsumed(t, u) ==
    /\ race.thread[t].pc = "done" /\ race.thread[u].pc = "done"
    /\ race.thread[t].checkedAt < race.thread[u].checkedAt
    /\ race.thread[t].found
    /\ \A w \in Threads :
           (/\ race.thread[w].pc # "idle"
            /\ domain[race.thread[w].node] = domain[race.thread[t].node]
            /\ Decoded(race.thread[w].node, race.thread[w].edge.value)
                   = Decoded(race.thread[t].node, race.thread[t].edge.value)
            /\ race.thread[w].consumedAt > 0)
           => race.thread[w].consumedAt > race.thread[u].checkedAt

\* Call t ended with its edge in the node's list.
Inserted(t) ==
    /\ ~race.thread[t].threw
    /\ \E i \in 1..Len(log) :
           /\ log[i] = Call(race.thread[t].node, race.thread[t].edge, NoError)
    /\ \E i \in 1..Len(edges[race.thread[t].node]) :
           edges[race.thread[t].node][i] = race.thread[t].edge

\* C14: when the checks of two insertions on one node with one decoded value
\* both run before the consume-and-append of either, both succeed and the
\* node holds two edges of that decoded value; when every addEdge runs to
\* completion before the next begins, no node ever holds two such edges.
C14_CheckThenConsumeRace ==
    /\ race.atomic => ~TwoEdgesOfOneValue
    /\ \A t, u \in Threads :
           (SameInsertion(t, u) /\ BothCheckedBeforeEitherConsumed(t, u))
               => /\ Inserted(t) /\ Inserted(u)
                  /\ \E i, j \in 1..Len(edges[race.thread[t].node]) :
                         /\ i # j
                         /\ Decoded(race.thread[t].node,
                                    edges[race.thread[t].node][i].value)
                                = Decoded(race.thread[t].node,
                                          edges[race.thread[t].node][j].value)

\* Two interleaved insertions of 109.230.37.1 and 109.230.37.01 on the one
\* node both went through.
C14_Witness ==
    /\ ~race.atomic
    /\ \E t, u \in Threads :
           /\ SameInsertion(t, u) /\ BothCheckedBeforeEitherConsumed(t, u)
           /\ race.thread[t].edge.value # race.thread[u].edge.value
    /\ TwoEdgesOfOneValue

\* The population each Domain, and the Domain of n, was constructed with.
InitialPools == [d \in DomainIds |-> NewDomain(DomainObjects[d])]

InitialPool(n) == InitialPools[domain[n]]

\* C15: every failure of addEdge is the one value-not-available error, the
\* same for a value that was never in the pool and for one already consumed,
\* and it carries the node addEdge was called on and the literal of the
\* rejected edge as written.
C15_OneErrorKind ==
    \A i \in 1..Len(log) :
        log[i].threw =>
            log[i].error = [name |-> "ValueNotAvailableError",
                            node |-> log[i].node,
                            value |-> log[i].edge.value]

\* One node rejected 109.230.37.01, whose decoded value had been consumed,
\* and 109.230.37.11, which never was in its pool.
C15_Witness ==
    \E i, j \in 1..Len(log) :
        /\ log[i].node = "sourceIpNode" /\ log[j].node = "sourceIpNode"
        /\ log[i].threw /\ log[j].threw
        /\ log[i].edge.value = IpText(109, 230, 37, 0) \o <<"1">>
        /\ Decoded("sourceIpNode", log[i].edge.value) \in InitialPool("sourceIpNode")
        /\ log[j].edge.value = ip11
        /\ Decoded("sourceIpNode", log[j].edge.value) \notin InitialPool("sourceIpNode")

\* C16: a terminal node is constructed with any decision literal, "accept"
\* (not a member of the Action enumeration) included, without error and with
\* its Action pool at the full population; after any sequence of addEdge
\* calls, edges that target it included, its tag, its decision literal and
\* its pool are as constructed.
C16_TerminalNodesUntouched ==
    /\ Action_getDomainValue(NodeValue["allowActionNode"]) = FromInt(-1)
    /\ \A n \in TerminalNodes :
           /\ terminal[n] = [type |-> "action", value |-> NodeValue[n]]
           /\ Pool(n) = InitialPool(n)
           /\ Pool(n) = {Action_getDomainValue(a) :
                             a \in {actionList[i] : i \in 1..Len(actionList)}}

\* The terminal node constructed with "accept" is the target of an edge of
\* the protocol node.
C16_Witness ==
    /\ terminal["allowActionNode"].value = <<"a", "c", "c", "e", "p", "t">>
    /\ \E i \in 1..Len(edges["tcpProtocolNode"]) :
           edges["tcpProtocolNode"][i].target = "allowActionNode"

\* C17: every edge e in the edge list of node n has e.source = n.
C17_SourceOwnsItsEdges ==
    \A n \in NonTerminalNodes : \A i \in 1..Len(edges[n]) :
        edges[n][i].source = n

\* No other node was constructed over the Domain object of n.
OwnDomain(n) == \A m \in Nodes \ {n} : domain[m] # domain[n]

\* The decoded values of the edges of n.
DecodedEdges(n) == {Decoded(n, edges[n][i].value) : i \in 1..Len(edges[n])}

\* C18: for a non-terminal node n whose Domain no other node uses, the
\* decoded values of n's edges and n's pool are disjoint and together are
\* n's initial population, so the edges and the pool values number the
\* initial population and the edges never outnumber it; and an addEdge on n
\* made when the pool is empty fails.
C18_Conservation ==
    /\ [](\A n \in NonTerminalNodes :
             OwnDomain(n) =>
                 /\ DecodedEdges(n) \cap Pool(n) = {}
                 /\ DecodedEdges(n) \cup Pool(n) = InitialPool(n)
                 /\ Len(edges[n]) + Cardinality(Pool(n))
                        = Cardinality(InitialPool(n))
                 /\ Len(edges[n]) <= Cardinality(InitialPool(n)))
    /\ [][ \A n \in NonTerminalNodes :
              (/\ OwnDomain(n)
               /\ Pool(n) = {}
               /\ Len(log') = Len(log) + 1
               /\ log'[Len(log')].node = n)
                  => /\ log'[Len(log')].threw
                     /\ edges'[n] = edges[n] ]_vars

\* The destination-port node, alone on its Domain, spent its whole pool and
\* was then called again.
C18_Witness ==
    /\ OwnDomain("destinationPortNode")
    /\ Pool("destinationPortNode") = {}
    /\ Len(edges["destinationPortNode"]) = 1
    /\ Len(log) >= 2
    /\ LastCall.node = "destinationPortNode"
    /\ LastCall.threw
    /\ LastCall.edge.value = <<"8", "0">>

\* n.addEdge(edge) as a function of the pools and edge lists before the call:
\* the pools and edge lists after it and whether it threw.
AddEdgeResult(st, n, edge) ==
    LET d == domain[n]
        v == getDomainValue(DomainClass(d), edge.value)
    IN  IF ~has(st.pools[d], v)
        THEN [pools |-> st.pools, edges |-> st.edges, threw |-> TRUE]
        ELSE [pools |-> [st.pools EXCEPT ![d] = delete(@, v)],
              edges |-> [st.edges EXCEPT ![n] = Append(@, edge)],
              threw |-> FALSE]

\* The pools and edge lists after the calls of a log, made in its order on
\* the graph as constructed.
RECURSIVE Replay(_)
Replay(calls) ==
    IF calls = <<>>
    THEN [pools |-> InitialPools,
          edges |-> [n \in NonTerminalNodes |-> <<>>],
          threw |-> FALSE]
    ELSE LET c == calls[Len(calls)]
         IN  AddEdgeResult(Replay(SubSeq(calls, 1, Len(calls) - 1)),
                           c.node, c.edge)

\* Two calls on different nodes with separate Domains, or on one node with
\* different decoded values.
Independent(c1, c2) ==
    \/ c1.node # c2.node /\ domain[c1.node] # domain[c2.node]
    \/ c1.node = c2.node
           /\ Decoded(c1.node, c1.edge.value) # Decoded(c2.node, c2.edge.value)

\* The list with its last two entries exchanged.
SwapLastTwo(s) ==
    SubSeq(s, 1, Len(s) - 2) \o <<s[Len(s)], s[Len(s) - 1]>>

\* C19: two addEdge calls on different nodes with separate Domains, or on
\* one node with different decoded values, made in either order give each
\* call the same outcome and end in the same pools; the edge lists differ at
\* most in the order of the two edges when both went into one list.
C19_OrderIndependence ==
    IF Len(log) < 2
    THEN Replay(log).pools = availableValuesSet /\ Replay(log).edges = edges
    ELSE LET k == Len(log)
             c1 == log[k - 1]
             c2 == log[k]
             before == Replay(SubSeq(log, 1, k - 2))
             now == AddEdgeResult(AddEdgeResult(before, c1.node, c1.edge),
                                  c2.node, c2.edge)
             first == AddEdgeResult(before, c2.node, c2.edge)
             second == AddEdgeResult(first, c1.node, c1.edge)
         IN  /\ Independent(c1, c2) =>
                    /\ first.threw = c2.threw
                    /\ second.threw = c1.threw
                    /\ second.pools = now.pools
                    /\ \A n \in NonTerminalNodes :
                           second.edges[n] =
                               IF /\ c1.node = n /\ c2.node = n
                                  /\ ~c1.threw /\ ~c2.threw
                               THEN SwapLastTwo(now.edges[n])
                               ELSE now.edges[n]
             /\ now.pools = availableValuesSet
             /\ now.edges = edges

\* Two successful calls on one node with different values, and a successful
\* and a failed call on two nodes with separate Domains.
C19_Witness ==
    /\ Len(log) = 3
    /\ log[1].node = "sourceIpNode" /\ log[1].edge.value = ip1 /\ ~log[1].threw
    /\ log[2].node = "sourceIpNode" /\ log[2].edge.value = ip2 /\ ~log[2].threw
    /\ Independent(log[1], log[2])
    /\ log[3].node = "destinationPortNode" /\ log[3].threw
    /\ Independent(log[2], log[3])

----------------------------------------------------------------------------
(* Properties of one Domain object, checked under SpecDomain *)

Listed(list, text) == \E i \in 1..Len(list) : list[i] = text

\* The admissible external values of a Domain class: the sampled dotted
\* quads (octets 0..255, written in decimal without leading zeros), the
\* sampled decimal ports (likewise), the listed names.
Admissible(class, x) ==
    CASE class = "IpRange"   -> x \in QuadSample
      [] class = "PortRange" -> x \in PortSample
      [] class = "Protocol"  -> Listed(protocolList, x.text)
      [] class = "Action"    -> Listed(actionList, x.text)

\* The admissible values an encoding is compared with for collisions.
QuadRivals ==
    {q \in QuadSample : \A i \in 1..4 : q.octets[i] \in {0, 1, 255}}

\* Each rival with the integer it encodes to.
IpRivalCodes ==
    {[text |-> y.text, enc |-> getDomainValue("IpRange", y.text)] :
       y \in QuadRivals}

PortRivalCodes ==
    {[text |-> y.text, enc |-> getDomainValue("PortRange", y.text)] :
       y \in PortSample}

ProtocolRivalCodes ==
    {[text |-> y.text, enc |-> getDomainValue("Protocol", y.text)] :
       y \in {x \in NameSample : Admissible("Protocol", x)}}

ActionRivalCodes ==
    {[text |-> y.text, enc |-> getDomainValue("Action", y.text)] :
       y \in {x \in NameSample : Admissible("Action", x)}}

RivalCodes(class) ==
    CASE class = "IpRange"   -> IpRivalCodes
      [] class = "PortRange" -> PortRivalCodes
      [] class = "Protocol"  -> ProtocolRivalCodes
      [] class = "Action"    -> ActionRivalCodes

Encoded == io.op \in {"getDomainValue", "getRangeValue"}

C7_RangePopulation ==
    (io.op = "has" /\ dom.class \in {"IpRange", "PortRange"}) =>
        /\ io.result = (NumLe(LowerBound(dom), io.value)
                          /\ NumLe(io.value, UpperBound(dom)))
        /\ (dom.class = "PortRange" /\ dom.start = 1 /\ dom.end = 65535) =>
              /\ io.value \in {FromInt(1), FromInt(65535)} => io.result
              /\ io.value \in {FromInt(0), FromInt(65536)} => ~io.result

\* The upper bound of a range that ends at 2^32 - 1.
C7_Witness ==
    /\ io.op = "has"
    /\ dom.class = "IpRange"
    /\ dom.end = IpText(255, 255, 255, 255)
    /\ io.value = [hi |-> 65535, lo |-> 65535]
    /\ io.result

\* C8: IpRange.getDomainValue of "a.b.c.d" is a*2^24 + b*2^16 + c*2^8 + d,
\* that is (a*2^8 + b) * 2^16 + (c*2^8 + d), a value in 0 .. 4294967295 and
\* never negative; "0.0.0.0" gives 0 and "255.255.255.255" gives 4294967295.
C8_BigEndian ==
    (Encoded /\ dom.class = "IpRange") =>
        LET o == io.ext.octets
        IN  /\ io.enc = [hi |-> o[1] * 256 + o[2], lo |-> o[3] * 256 + o[4]]
            /\ io.enc.hi \in 0..65535 /\ io.enc.lo \in 0..65535
            /\ ~IsNegative(io.enc)
            /\ o = <<0, 0, 0, 0>> => io.enc = FromInt(0)
            /\ o = <<255, 255, 255, 255>>
                   => io.enc = [hi |-> 65535, lo |-> 65535]

\* An address whose first octet sets the sign bit of the 32-bit shift.
C8_Witness ==
    /\ io.op = "getDomainValue"
    /\ dom.class = "IpRange"
    /\ io.ext.octets = <<255, 255, 255, 255>>
    /\ IsNegative(ReduceOctets(split(io.ext.text, Dot), FromInt(0)))
    /\ io.enc = [hi |-> 65535, lo |-> 65535]

tcp == <<"t", "c", "p">>
udp == <<"u", "d", "p">>
icmp == <<"i", "c", "m", "p">>
allow == <<"a", "l", "l", "o", "w">>
discard == <<"d", "i", "s", "c", "a", "r", "d">>
accept == <<"a", "c", "c", "e", "p", "t">>

\* C9: right after construction the Protocol pool is {0, 1, 2} with tcp -> 0,
\* udp -> 1, icmp -> 2, the Action pool is {0, 1} with allow -> 0,
\* discard -> 1; has() is false of every other integer, and a name that is
\* not listed encodes to an integer outside the pool.
C9_Enumerations ==
    /\ dom.class = "Protocol" =>
          /\ domSet = {FromInt(0), FromInt(1), FromInt(2)}
          /\ io.op = "has" =>
                io.result = (io.value \in {FromInt(0), FromInt(1), FromInt(2)})
          /\ Encoded =>
                /\ io.ext.text = tcp => io.enc = FromInt(0)
                /\ io.ext.text = udp => io.enc = FromInt(1)
                /\ io.ext.text = icmp => io.enc = FromInt(2)
                /\ io.ext.text \notin {tcp, udp, icmp} => ~has(domSet, io.enc)
    /\ dom.class = "Action" =>
          /\ domSet = {FromInt(0), FromInt(1)}
          /\ io.op = "has" =>
                io.result = (io.value \in {FromInt(0), FromInt(1)})
          /\ Encoded =>
                /\ io.ext.text = allow => io.enc = FromInt(0)
                /\ io.ext.text = discard => io.enc = FromInt(1)
                /\ io.ext.text \notin {allow, discard} => ~has(domSet, io.enc)

C9_Witness ==
    /\ dom.class = "Action"
    /\ io.op = "getDomainValue"
    /\ io.ext.text = accept
    /\ io.enc = FromInt(0 - 1)
    /\ ~has(domSet, io.enc)

====
